---- MODULE Spec2Model ----
(***************************************************************************)
(* youshallnotpass: the token bucket of src/src/token_bucket.rs            *)
(* (TokenBucket::with_timer, TokenBucket::consume) as a state machine.     *)
(*                                                                         *)
(* Instants are natural numbers of nanoseconds counted from the origin of  *)
(* the clock (the smallest Instant the platform represents), so that       *)
(* Instant::checked_sub is None exactly when the duration is larger than   *)
(* the instant (the case line 136 handles with unwrap_or(now)).  Durations *)
(* are natural numbers of nanoseconds.  The quantities of the model stay   *)
(* far below 2^64, so that the cast of line 90 and the usize product of    *)
(* line 137 lose nothing inside the bounds.                                *)
(*                                                                         *)
(* SpecUsize takes the same code with a usize of 0..MaxUsize, so that the  *)
(* product of line 137 can exceed it, and SpecLive does so for threads     *)
(* that call concurrently and are scheduled fairly.  SpecKeys and          *)
(* SpecKeysConc are the                                                    *)
(* builder and the RateLimiter of src/src/rate_limiter.rs, with a          *)
(* TokenBucket outside the rate limiter that is given the calls made with  *)
(* the key Twin.  SpecCounter gives the same calls to the TokenBucket of   *)
(* src/src/lib.rs, whose f64 arithmetic is computed digit by digit: every  *)
(* f64 operation is the exact result rounded to 53 binary digits, the even *)
(* one of two that are equally near.  The unit matters there: 3 ns / 1 ns  *)
(* and 300 ms / 100 ms are different f64 quotients.                        *)
(***************************************************************************)
EXTENDS Integers, Sequences, FiniteSets, TLC

\* ---------------------------------------------------------------- bounds
MaxLimit == 2
MaxInterval == 3
MaxTokens == 2
MaxTime == 7

\* bounds of the rate limiter: the calls of limit on one builder, the limit
\* and the interval of a policy, the tokens of a call, the readings of the clock
MaxRegs == 2
MaxKeyLimit == 1
MaxKeyInterval == 2
MaxKeyTokens == 1
MaxKeyTime == 2

\* the largest value of the type usize, scaled down from 2^64 - 1 so that the
\* products of line 137 that exceed it are inside the bounds
MaxUsize == 15

\* the calling threads
Threads == {"t1", "t2"}

\* the keys policies are set for, and the keys consume is called with
PolicyKeys == {"A", "B"}
Keys == {"A", "B", "C"}

\* the key whose policy the bucket outside the rate limiter is built with
Twin == "A"

\* ------------------------------------------------------- Option<Instant>
None == << >>
Some(x) == << x >>
unwrap_or(o, d) == IF o = None THEN d ELSE o[1]

\* Instant::checked_sub(Duration)
checked_sub(instant, duration) ==
    IF instant >= duration THEN Some(instant - duration) ELSE None

max(a, b) == IF a >= b THEN a ELSE b

min(a, b) == IF a <= b THEN a ELSE b

\* ------------------------------------------------------------ the engine
\* with_timer, were it to round a quotient of 0 up to one nanosecond
with_timer_clamped(limit_arg, interval_arg) ==
    IF limit_arg > 0 THEN max(1, interval_arg \div limit_arg) ELSE 0

\* TokenBucket::with_timer, lines 89-93: the value of the field time_per_token
with_timer(limit_arg, interval_arg) ==
    IF limit_arg > 0 THEN interval_arg \div limit_arg ELSE 0

\* the locals of TokenBucket::consume, lines 136-140
interval_start(now_v, interval_v) ==
    unwrap_or(checked_sub(now_v, interval_v), now_v)

token_delay(tokens_v, tpt) == tokens_v * tpt

\* required_time, were line 140 to add the delay to interval_start alone
required_time_from_start(now_v, interval_v, tokens_v, tpt, lra) ==
    interval_start(now_v, interval_v) + token_delay(tokens_v, tpt)

\* line 140
required_time(now_v, interval_v, tokens_v, tpt, lra) ==
    max(interval_start(now_v, interval_v),
        unwrap_or(lra, interval_start(now_v, interval_v)))
      + token_delay(tokens_v, tpt)

\* the results of consume, each with the argument of the call
Ok(tokens_v) == [kind |-> "Ok", tokens |-> tokens_v, delay |-> 0]
Blocked(tokens_v) == [kind |-> "Blocked", tokens |-> tokens_v, delay |-> 0]
RetryAfter(tokens_v, d) == [kind |-> "RetryAfter", tokens |-> tokens_v, delay |-> d]
NoResult == [kind |-> "None", tokens |-> 0, delay |-> 0]

\* the result, were line 141 to compare with >= instead of >
consume_result_ge(now_v, interval_v, tokens_v, tpt, lra) ==
    LET required == required_time(now_v, interval_v, tokens_v, tpt, lra)
    IN  IF required >= now_v
        THEN RetryAfter(tokens_v, required - now_v)
        ELSE Ok(tokens_v)

\* lines 140-146: the result of the critical section
consume_result(now_v, interval_v, tokens_v, tpt, lra) ==
    LET required == required_time(now_v, interval_v, tokens_v, tpt, lra)
    IN  IF required > now_v
        THEN RetryAfter(tokens_v, required - now_v)
        ELSE Ok(tokens_v)

\* the value left, were line 144 to be executed on the Err branch too
consume_mark_always(now_v, interval_v, tokens_v, tpt, lra) ==
    Some(required_time(now_v, interval_v, tokens_v, tpt, lra))

\* the value left, were line 144 to store the reading of the clock plus the
\* delay of the tokens
consume_mark_from_now(now_v, interval_v, tokens_v, tpt, lra) ==
    LET required == required_time(now_v, interval_v, tokens_v, tpt, lra)
    IN  IF required > now_v THEN lra
        ELSE Some(now_v + token_delay(tokens_v, tpt))

\* lines 140-146: the value of last_replenished_at the critical section leaves
consume_mark(now_v, interval_v, tokens_v, tpt, lra) ==
    LET required == required_time(now_v, interval_v, tokens_v, tpt, lra)
    IN  IF required > now_v THEN lra ELSE Some(required)

\* ------------------------------------------- the arithmetic of usize
\* `as usize`, and the result of an operation of usize that wraps around
usize(x) == x % (MaxUsize + 1)

\* TokenBucket::with_timer, line 90: interval.as_nanos() as usize / limit
with_timer_usize(limit_arg, interval_arg) ==
    IF limit_arg > 0 THEN usize(interval_arg) \div limit_arg ELSE 0

\* line 137: tokens * self.time_per_token does not fit a usize
overflows(tokens_v, tpt) == tokens_v * tpt > MaxUsize

\* line 137 in a build without overflow checks
token_delay_usize(tokens_v, tpt) == usize(tokens_v * tpt)

required_time_usize(now_v, interval_v, tokens_v, tpt, lra) ==
    max(interval_start(now_v, interval_v),
        unwrap_or(lra, interval_start(now_v, interval_v)))
      + token_delay_usize(tokens_v, tpt)

\* lines 140-146 with the product of line 137 wrapped around
consume_result_usize(now_v, interval_v, tokens_v, tpt, lra) ==
    LET required == required_time_usize(now_v, interval_v, tokens_v, tpt, lra)
    IN  IF required > now_v
        THEN RetryAfter(tokens_v, required - now_v)
        ELSE Ok(tokens_v)

consume_mark_usize(now_v, interval_v, tokens_v, tpt, lra) ==
    LET required == required_time_usize(now_v, interval_v, tokens_v, tpt, lra)
    IN  IF required > now_v THEN lra ELSE Some(required)

\* the thread panicked inside consume
Panicked(tokens_v) == [kind |-> "Panic", tokens |-> tokens_v, delay |-> 0]

\* the Mutex after a thread panicked while it held the guard
Poisoned == Some("poisoned")

\* ------------------------------------------ natural numbers of any size
\* The f64 operations of lib.rs are rounded quotients and products of numbers
\* of 53 binary digits.  A natural number is the sequence of its digits in
\* base Base, the lowest first, with no zero at the end.
Base == 32768

BaseBits == 15

RECURSIVE big(_)
big(n) == IF n = 0 THEN << >> ELSE << n % Base >> \o big(n \div Base)

\* the value of a number that is less than 2^31
RECURSIVE small(_)
small(a) == IF a = << >> THEN 0 ELSE a[1] + Base * small(Tail(a))

\* the largest number of a set of numbers that is not empty
highest(S) == CHOOSE i \in S : \A j \in S : j <= i

\* a without the zeros at its end
trim(a) ==
    IF \A i \in 1..Len(a) : a[i] = 0 THEN << >>
    ELSE SubSeq(a, 1, highest({i \in 1..Len(a) : a[i] # 0}))

limb(a, i) == IF i <= Len(a) THEN a[i] ELSE 0

\* a + b carries 1 into the digit i: a digit below i overflows, and the digits
\* between pass the carry on
carries(a, b, i) ==
    \E j \in 1..(i - 1) :
       /\ limb(a, j) + limb(b, j) >= Base
       /\ \A k \in (j + 1)..(i - 1) : limb(a, k) + limb(b, k) = Base - 1

big_add(a, b) ==
    IF a = << >> THEN b
    ELSE IF b = << >> THEN a
    ELSE trim([i \in 1..(max(Len(a), Len(b)) + 1) |->
                 (limb(a, i) + limb(b, i)
                    + (IF carries(a, b, i) THEN 1 ELSE 0)) % Base])

\* a - b borrows 1 from the digit i
borrows(a, b, i) ==
    \E j \in 1..(i - 1) :
       /\ a[j] < limb(b, j)
       /\ \A k \in (j + 1)..(i - 1) : a[k] = limb(b, k)

\* a - b, for a >= b
big_sub(a, b) ==
    IF b = << >> THEN a
    ELSE trim([i \in 1..Len(a) |->
                 (a[i] - limb(b, i) - (IF borrows(a, b, i) THEN 1 ELSE 0)
                    + Base) % Base])

\* a >= b: the highest digit in which they differ decides
big_ge(a, b) ==
    \/ \A i \in 1..max(Len(a), Len(b)) : limb(a, i) = limb(b, i)
    \/ limb(a, highest({i \in 1..max(Len(a), Len(b)) :
                           limb(a, i) # limb(b, i)}))
         > limb(b, highest({i \in 1..max(Len(a), Len(b)) :
                              limb(a, i) # limb(b, i)}))

\* a * k, for k less than Base: the low halves of the products of the digits
\* plus their high halves one digit up
big_mul_small(a, k) ==
    IF a = << >> \/ k = 0 THEN << >>
    ELSE big_add([i \in 1..Len(a) |-> (a[i] * k) % Base],
                 << 0 >> \o [i \in 1..Len(a) |-> (a[i] * k) \div Base])

shift_limbs(a, n) == IF a = << >> THEN << >> ELSE [i \in 1..n |-> 0] \o a

RECURSIVE mul_acc(_, _, _)
mul_acc(a, b, i) ==
    IF i > Len(b) THEN << >>
    ELSE big_add(shift_limbs(big_mul_small(a, b[i]), i - 1),
                 mul_acc(a, b, i + 1))

big_mul(a, b) == mul_acc(a, b, 1)

\* a * 2^k, for k not negative
big_shl(a, k) ==
    shift_limbs(big_mul_small(a, 2 ^ (k % BaseBits)), k \div BaseBits)

\* the number of binary digits of a number less than Base
bits_of(n) ==
    CHOOSE k \in 0..BaseBits : n < 2 ^ k /\ (k = 0 \/ n >= 2 ^ (k - 1))

\* the number of binary digits of a
big_bits(a) ==
    IF a = << >> THEN 0 ELSE BaseBits * (Len(a) - 1) + bits_of(a[Len(a)])

\* the largest d with d * q <= r, for r < Base * q and a q whose highest
\* digit is Base / 2 or more: the quotient of the two highest digits of r by
\* the highest digit of q is d, d + 1 or d + 2
digit(r, q) ==
    IF Len(r) < Len(q) THEN 0
    ELSE LET n == Len(q)
             est == min((limb(r, n + 1) * Base + r[n]) \div q[n], Base - 1)
         IN  IF big_ge(r, big_mul_small(q, est)) THEN est
             ELSE IF big_ge(r, big_mul_small(q, est - 1)) THEN est - 1
             ELSE est - 2

reverse(a) == [i \in 1..Len(a) |-> a[Len(a) + 1 - i]]

\* the digits of the quotient of p by q, the highest first, one digit of p
\* at a time from the digit i down; rem is what the digits above i left
RECURSIVE div_from(_, _, _, _)
div_from(p, q, i, rem) ==
    IF i = 0 THEN << >>
    ELSE LET r == trim(<< p[i] >> \o rem)
             d == digit(r, q)
         IN  << d >> \o div_from(p, q, i - 1, big_sub(r, big_mul_small(q, d)))

\* the whole part of p / q for a q whose highest digit is Base / 2 or more:
\* the highest digits of p, one fewer than q has, are less than q
div_high(p, q) ==
    IF Len(p) < Len(q) THEN << >>
    ELSE trim(reverse(div_from(p, q, Len(p) - Len(q) + 1,
                               SubSeq(p, Len(p) - Len(q) + 2, Len(p)))))

\* the whole part of p / q, q not zero; p and q are doubled until the highest
\* digit of q is Base / 2 or more
big_div(p, q) ==
    div_high(big_shl(p, BaseBits - bits_of(q[Len(q)])),
             big_shl(q, BaseBits - bits_of(q[Len(q)])))

\* quo or quo + 1, whichever is nearer to p / q, the even one if they are
\* equally near; quo is the whole part of p / q and twice is two times the
\* remainder
nearest(quo, twice, q) ==
    IF twice # q /\ big_ge(twice, q) THEN big_add(quo, << 1 >>)
    ELSE IF twice = q /\ limb(quo, 1) % 2 = 1 THEN big_add(quo, << 1 >>)
    ELSE quo

\* the same from p, q and the whole part of p / q
round_from(p, q, quo) ==
    nearest(quo, big_mul_small(big_sub(p, big_mul(q, quo)), 2), q)

\* the integer nearest to p / q, the even one of two that are equally near
big_round(p, q) == round_from(p, q, big_div(p, q))

\* ----------------------------------------------------------- f64, not negative
\* An f64 that is not negative is NaN, the infinity, or m * 2^e.  The
\* numbers of lib.rs are far from the least and from the largest f64, so
\* that e has no bound here.
NaN == [kind |-> "nan", m |-> << >>, e |-> 0]
Infinity == [kind |-> "inf", m |-> << >>, e |-> 0]
finite(mantissa, exponent) ==
    [kind |-> "finite", m |-> mantissa, e |-> exponent]
is_zero(x) == x.kind = "finite" /\ x.m = << >>

\* the multiple of 2^(j + e_v) nearest to (p / q) * 2^e_v
round_at(p, q, e_v, j) ==
    finite(big_round(IF j < 0 THEN big_shl(p, 0 - j) ELSE p,
                     IF j > 0 THEN big_shl(q, j) ELSE q),
           j + e_v)

\* the same with j for 53 binary digits: p / q has as many digits before
\* the point as p has more than q, or one more
round_53(p, q, e_v, j) ==
    IF big_ge(IF j < 0 THEN big_shl(p, 0 - j) ELSE p,
              big_shl(q, 53 + (IF j > 0 THEN j ELSE 0)))
    THEN round_at(p, q, e_v, j + 1)
    ELSE round_at(p, q, e_v, j)

\* the f64 nearest to (p / q) * 2^e_v, the one with the even 53rd digit of
\* two that are equally near: the result of every f64 operation
round_f64(p, q, e_v) ==
    IF p = << >> THEN finite(<< >>, 0)
    ELSE round_53(p, q, e_v, big_bits(p) - big_bits(q) - 53)

\* `as f64` of a usize
f64_of(a) == round_f64(a, << 1 >>, 0)

\* f64 / f64
f64_div(x, y) ==
    IF x.kind = "nan" \/ y.kind = "nan" THEN NaN
    ELSE IF x.kind = "inf" THEN (IF y.kind = "inf" THEN NaN ELSE Infinity)
    ELSE IF y.kind = "inf" THEN finite(<< >>, 0)
    ELSE IF is_zero(y) THEN (IF is_zero(x) THEN NaN ELSE Infinity)
    ELSE round_f64(x.m, y.m, x.e - y.e)

\* f64 * f64
f64_mul(x, y) ==
    IF x.kind = "nan" \/ y.kind = "nan" THEN NaN
    ELSE IF x.kind = "inf" \/ y.kind = "inf"
         THEN (IF is_zero(x) \/ is_zero(y) THEN NaN ELSE Infinity)
    ELSE round_f64(big_mul(x.m, y.m), << 1 >>, x.e + y.e)

\* f64 + f64 of finite numbers
f64_add(x, y) ==
    IF is_zero(x) THEN y
    ELSE IF is_zero(y) THEN x
    ELSE round_f64(big_add(big_shl(x.m, x.e - min(x.e, y.e)),
                           big_shl(y.m, y.e - min(x.e, y.e))),
                   << 1 >>, min(x.e, y.e))

\* `as usize` of an f64 that is not negative: NaN gives 0, the fraction is
\* dropped, and what does not fit gives usize::MAX
usize_MAX == big_sub(big_shl(<< 1 >>, 64), << 1 >>)

saturate(a) == IF big_ge(a, usize_MAX) THEN usize_MAX ELSE a

as_usize(x) ==
    IF x.kind = "nan" THEN << >>
    ELSE IF x.kind = "inf" THEN usize_MAX
    ELSE saturate(IF x.e >= 0 THEN big_shl(x.m, x.e)
                  ELSE big_div(x.m, big_shl(<< 1 >>, 0 - x.e)))

NANOS_PER_SEC == 1000000000

\* Duration::as_secs_f64 of a duration of ns nanoseconds:
\* (secs as f64) + (nanos as f64) / (NANOS_PER_SEC as f64)
as_secs_f64(ns) ==
    f64_add(f64_of(big(ns \div NANOS_PER_SEC)),
            f64_div(f64_of(big(ns % NANOS_PER_SEC)), f64_of(big(NANOS_PER_SEC))))

\* Duration::from_secs_f64 of a finite f64 that is not negative, in
\* nanoseconds: the nearest whole number of nanoseconds, the even one of two
\* that are equally near
from_secs_f64(x) ==
    small(IF x.e >= 0
          THEN big_shl(big_mul(x.m, big(NANOS_PER_SEC)), x.e)
          ELSE big_round(big_mul(x.m, big(NANOS_PER_SEC)),
                         big_shl(<< 1 >>, 0 - x.e)))

\* --------------------------------- the counter variant of src/src/lib.rs
\* TokenBucket::new of lib.rs, lines 12-20; admitted is the result of the last
\* call, and panicked says that the last call panicked
counter_new(capacity) ==
    [tokens |-> capacity, last_replenished_at |-> None, admitted |-> FALSE,
     panicked |-> FALSE]

\* lines 34-36: the whole tokens that the elapsed time yields
tokens_to_replenish(elapsed, capacity, interval_f64) ==
    as_usize(f64_mul(f64_div(as_secs_f64(elapsed), interval_f64),
                     f64_of(big(capacity))))

\* lines 43-45, the argument of Duration::from_secs_f64: the time that this
\* many tokens take
replenish_interval(whole, capacity, interval_f64) ==
    f64_mul(f64_div(f64_of(whole), f64_of(big(capacity))), interval_f64)

\* lines 47-50: saturating_add and min
refilled(c, capacity, whole) ==
    IF big_ge(whole, big(capacity - c.tokens)) THEN capacity
    ELSE c.tokens + small(whole)

\* lines 52-58: checked_sub
take(filled, weight, mark) ==
    [tokens |-> IF filled >= weight THEN filled - weight ELSE filled,
     last_replenished_at |-> mark,
     admitted |-> filled >= weight,
     panicked |-> FALSE]

\* lines 43-58; from_secs_f64 panics at line 43 on NaN and on the infinity,
\* before anything is written
replenish(c, capacity, weight, from, whole, replenish_f64) ==
    IF replenish_f64.kind # "finite"
    THEN [c EXCEPT !.admitted = FALSE, !.panicked = TRUE]
    ELSE take(refilled(c, capacity, whole), weight,
              Some(from + from_secs_f64(replenish_f64)))

\* lines 43-58 with the whole tokens of lines 34-36
consume_from(c, capacity, interval_f64, weight, from, whole) ==
    replenish(c, capacity, weight, from, whole,
              replenish_interval(whole, capacity, interval_f64))

\* lines 34-58 with the last_replenished_at of line 33; duration_since is
\* zero when the clock is behind it
consume_at(now_v, capacity, interval_f64, c, weight, from) ==
    consume_from(c, capacity, interval_f64, weight, from,
                 tokens_to_replenish(max(now_v - from, 0), capacity,
                                     interval_f64))

\* TokenBucket::consume_weight of lib.rs, lines 31-59, on the bucket c at the
\* clock reading now_v
consume_weight(now_v, capacity, interval_v, c, weight) ==
    consume_at(now_v, capacity, as_secs_f64(interval_v), c, weight,
               unwrap_or(c.last_replenished_at, now_v))

\* ------------------------------------------------------- the rate limiter
\* TokenBucket::with_timer, lines 88-97, as a value of the map
new_bucket(limit_arg, interval_arg) ==
    [time_per_token |-> with_timer(limit_arg, interval_arg),
     interval |-> interval_arg,
     last_replenished_at |-> None,
     mutex |-> None]

\* HashMap::insert, were it to keep the value a key already has
insert_if_absent(m, k, v) ==
    [j \in DOMAIN m \cup {k} |-> IF j \in DOMAIN m THEN m[j] ELSE v]

\* HashMap::insert: the value replaces the one the key had
insert(m, k, v) ==
    [j \in DOMAIN m \cup {k} |-> IF j = k THEN v ELSE m[j]]

\* RateLimiterBuilder::done, lines 152-158: the policies are mapped to buckets
\* and collected into the HashMap in the order of the Vec
RECURSIVE collect_from(_, _, _)
collect_from(lims, i, m) ==
    IF i > Len(lims) THEN m
    ELSE collect_from(lims, i + 1,
                      insert(m, lims[i].key,
                             new_bucket(lims[i].limit, lims[i].interval)))

collect(lims) == collect_from(lims, 1, << >>)

\* HashMap::get
get(m, k) == IF k \in DOMAIN m THEN Some(m[k]) ELSE None

\* RateLimiter::consume, line 122, were a missing bucket to block the key
unregistered_blocked(tokens_v) == Blocked(tokens_v)

\* RateLimiter::consume, line 122: .unwrap_or(Ok(()))
unregistered(tokens_v) == Ok(tokens_v)

\* the Mutex of the bucket of key k, were one lock to serve all the buckets
lock_free_all(bs, k) == \A j \in DOMAIN bs : bs[j].mutex = None

\* the Mutex of the bucket of key k is not held
lock_free(bs, k) == bs[k].mutex = None

\* line 144 and the return, were the buckets to share one last_replenished_at
store_all(bs, k, mark) ==
    [j \in DOMAIN bs |->
        [bs[j] EXCEPT !.last_replenished_at = mark,
                      !.mutex = IF j = k THEN None ELSE bs[j].mutex]]

\* TokenBucket::consume, lines 141-147, on the bucket of key k: the value of
\* last_replenished_at the call leaves, and the guard dropped on return
store(bs, k, mark) ==
    [bs EXCEPT ![k] = [bs[k] EXCEPT !.last_replenished_at = mark,
                                   !.mutex = None]]

\* the result, were RateLimiter::consume to return RetryAfter without the delay
Answer_without_delay(k, res) ==
    [key |-> k, kind |-> res.kind, tokens |-> res.tokens, delay |-> 0]

\* the result of RateLimiter::consume with the key it was called with
Answer(k, res) ==
    [key |-> k, kind |-> res.kind, tokens |-> res.tokens, delay |-> res.delay]

NoAnswer == Answer("-", NoResult)

\* the results are recorded for a single caller
Answered(now_answer, calls, res) == IF Cardinality(calls) = 1 THEN res ELSE now_answer

\* the last policy set for key k in the Vec of the builder
final_policy(lims, k) ==
    lims[CHOOSE i \in DOMAIN lims :
            /\ lims[i].key = k
            /\ \A j \in DOMAIN lims : j > i => lims[j].key # k]

\* ----------------------------------------------------------------- state
VARIABLES
    limit,                \* the argument limit of with_timer
    interval,             \* TokenBucket.interval
    time_per_token,       \* TokenBucket.time_per_token
    last_replenished_at,  \* the Option<Instant> inside the Mutex
    mutex,                \* the thread holding the Mutex, if any
    clock,                \* the instant the clock returns
    pc,                   \* where each thread is inside consume
    tokens,               \* the argument of each thread's call in progress
    now,                  \* the clock reading of each thread's call
    last,                 \* the result of the call that returned last
    noted,                \* an earlier RetryAfter result kept for comparison
    clean,                \* no call was admitted since `noted` was returned
    run,                  \* the unit calls returned in a row at one instant
    dep,                  \* the instant of a depletion that was just observed
    callers,              \* the threads that call consume
    seen,                 \* what each thread read through the lock guard
    serial,               \* last_replenished_at of the calls run one at a time
    expect,               \* the result each call has when run one at a time
    limits,               \* RateLimiterBuilder.limits
    built,                \* done() was called
    buckets,              \* RateLimiter.buckets
    key,                  \* the key of each thread's call in progress
    answer,               \* the result of RateLimiter::consume returned last
    superseded,           \* the keys set more than once, to different policies
    overflow_checks,      \* the build panics when an operation of usize overflows
    counter,              \* the TokenBucket of lib.rs, given the same calls
    peak                  \* the most time the admitted calls have been charged

vars == << limit, interval, time_per_token, last_replenished_at, mutex, clock,
           pc, tokens, now, last, noted, clean, run, dep, callers,
           seen, serial, expect,
           limits, built, buckets, key, answer, superseded,
           overflow_checks, counter, peak >>

\* the calls run one at a time, in the order in which they entered the
\* critical section
lin == << seen, serial, expect >>

\* what the steps of a call on a single bucket leave alone
\* the builder and the rate limiter
limiter == << limits, built, buckets, key, answer, superseded >>

\* the build, the bucket of lib.rs, and the account of the admitted calls
variants == << overflow_checks, counter, peak >>

others == << lin, limiter, variants >>

\* what the steps of a call on the rate limiter leave alone: the builder, and
\* the history of the calls on a single bucket
apart == << lin, limits, built, superseded, mutex, noted, clean, run, dep,
            callers, variants >>

config == << limit, interval, time_per_token, callers >>

\* the history variables noted, clean, run and dep follow the calls of a single
\* caller, whose calls return in the order in which they were made
Sequential == Cardinality(callers) = 1

NoRun == [at |-> None, n |-> 0, closed |-> FALSE, first |-> FALSE, cyc |-> FALSE,
          mark |-> None]

\* the run of unit calls after the result res was returned to a call that read
\* the clock at `at` (None: the clock was not read) on a bucket whose
\* last_replenished_at was lra before the call; `mark` keeps the
\* last_replenished_at the first call of the run found
run_after(res, at, lra) ==
    IF res.tokens # 1 THEN NoRun
    ELSE IF run.at # None /\ run.at = at /\ ~run.closed
         THEN IF res.kind = "Ok"
              THEN [run EXCEPT !.n = run.n + 1]
              ELSE [run EXCEPT !.closed = TRUE]
         ELSE [at |-> at,
               n |-> IF res.kind = "Ok" THEN 1 ELSE 0,
               closed |-> res.kind # "Ok",
               first |-> lra = None,
               cyc |-> dep # None /\ at = Some(dep[1] + interval),
               mark |-> lra]

\* a depletion: exactly `limit` unit calls admitted at one instant and the
\* next unit call at that instant refused
dep_after(res, at, lra) ==
    LET r == run_after(res, at, lra)
    IN  IF limit > 0 /\ res.tokens = 1 /\ res.kind = "RetryAfter"
           /\ r.closed /\ r.n = limit
        THEN r.at ELSE None

Observe(res, at, lra) ==
    /\ last' = res
    /\ run' = IF Sequential THEN run_after(res, at, lra) ELSE run
    /\ dep' = IF Sequential THEN dep_after(res, at, lra) ELSE dep
    /\ \/ /\ Sequential
          /\ res.kind = "RetryAfter"
          /\ noted' = Some([tokens |-> res.tokens, at |-> at[1],
                            delay |-> res.delay])
          /\ clean' = TRUE
       \/ /\ noted' = noted
          /\ clean' = (clean /\ (res.kind # "Ok" \/ noted = None))

\* ------------------------------------------------------------------ Init
\* TokenBucket::with_timer, lines 83-98; no call has been made
NoCalls ==
    /\ last_replenished_at = None
    /\ mutex = None
    /\ pc = [t \in Threads |-> "idle"]
    /\ tokens = [t \in Threads |-> 0]
    /\ now = [t \in Threads |-> 0]
    /\ last = NoResult
    /\ noted = None
    /\ clean = TRUE
    /\ run = NoRun
    /\ dep = None
    /\ seen = [t \in Threads |-> None]
    /\ serial = None
    /\ expect = [t \in Threads |-> NoResult]
    /\ limits = << >>
    /\ built = FALSE
    /\ buckets = << >>
    /\ key = [t \in Threads |-> "-"]
    /\ answer = NoAnswer
    /\ superseded = {}

\* a build without overflow checks; the bucket of lib.rs is not used; no
\* call has been admitted
Plain ==
    /\ overflow_checks = FALSE
    /\ counter = counter_new(0)
    /\ peak = None

InitEngine ==
    /\ limit \in 0..MaxLimit
    /\ interval \in 0..MaxInterval
    /\ time_per_token = with_timer(limit, interval)
    /\ NoCalls
    /\ Plain

\* one thread calls consume; the clock starts at its origin
Init ==
    /\ InitEngine
    /\ clock = 0
    /\ callers = {"t1"}

\* the threads call consume concurrently; the clock starts at its origin
InitConc ==
    /\ InitEngine
    /\ clock = 0
    /\ callers = Threads

\* one thread calls consume; the bucket is built when the clock is already
\* MaxInterval past its origin, so that checked_sub never fails at line 136
InitWarm ==
    /\ InitEngine
    /\ clock = MaxInterval
    /\ callers = {"t1"}

\* the threads call consume concurrently on a bucket built when the clock is
\* already MaxInterval past its origin
InitLin ==
    /\ InitEngine
    /\ clock = MaxInterval
    /\ callers = Threads

\* RateLimiter::with_timer, lines 79-84: a builder with no policy; the bucket
\* outside the rate limiter is built when done is called
InitBuilder ==
    /\ limit = 0
    /\ interval = 0
    /\ time_per_token = with_timer(0, 0)
    /\ NoCalls
    /\ Plain
    /\ clock = 0

\* one thread calls the rate limiter
InitKeys ==
    /\ InitBuilder
    /\ callers = {"t1"}

\* the threads call the rate limiter concurrently
InitKeysConc ==
    /\ InitBuilder
    /\ callers = Threads

\* one thread calls consume with any usize, in a build with or without
\* overflow checks; the clock is MaxInterval past its origin
InitUsize ==
    /\ limit \in 0..MaxLimit
    /\ interval \in 0..MaxInterval
    /\ time_per_token = with_timer_usize(limit, interval)
    /\ NoCalls
    /\ overflow_checks \in BOOLEAN
    /\ counter = counter_new(0)
    /\ peak = None
    /\ clock = MaxInterval
    /\ callers = {"t1"}

\* the threads call consume concurrently with any usize, in a build with or
\* without overflow checks; the clock is MaxInterval past its origin
InitLive ==
    /\ limit \in 0..MaxLimit
    /\ interval \in 0..MaxInterval
    /\ time_per_token = with_timer_usize(limit, interval)
    /\ NoCalls
    /\ overflow_checks \in BOOLEAN
    /\ counter = counter_new(0)
    /\ peak = None
    /\ clock = MaxInterval
    /\ callers = Threads

\* one thread gives the same calls to a bucket of token_bucket.rs and to a
\* bucket of lib.rs of the same capacity and interval; the clock is
\* MaxInterval past its origin
InitCounter ==
    /\ limit \in 0..MaxLimit
    /\ interval \in 0..MaxInterval
    /\ time_per_token = with_timer(limit, interval)
    /\ NoCalls
    /\ overflow_checks = FALSE
    /\ counter = counter_new(limit)
    /\ peak = None
    /\ clock = MaxInterval
    /\ callers = {"t1"}

\* --------------------------------------------------------------- actions
\* consume, lines 129-131: a blocked bucket returns at once
ConsumeBlocked(t, w) ==
    /\ pc[t] = "idle"
    /\ time_per_token = 0
    /\ Observe(Blocked(w), None, last_replenished_at)
    /\ UNCHANGED << config, last_replenished_at, mutex, clock, pc, tokens, now,
                    others >>

\* consume, line 133: the clock is read before the lock is taken
ReadClock(t, w) ==
    /\ pc[t] = "idle"
    /\ time_per_token # 0
    /\ now' = [now EXCEPT ![t] = clock]
    /\ tokens' = [tokens EXCEPT ![t] = w]
    /\ pc' = [pc EXCEPT ![t] = "lock"]
    /\ UNCHANGED << config, last_replenished_at, mutex, clock, last, noted,
                    clean, run, dep, others >>

\* line 134, were lock() to return without waiting for the holder of the Mutex
Lock_without_waiting(t) ==
    /\ pc[t] = "lock"
    /\ mutex' = Some(t)
    /\ pc' = [pc EXCEPT ![t] = "cs"]
    /\ UNCHANGED << config, last_replenished_at, clock, tokens, now, last,
                    noted, clean, run, dep, others >>

\* consume, line 134: last_replenished_at.lock()
Lock(t) ==
    /\ pc[t] = "lock"
    /\ mutex = None
    /\ mutex' = Some(t)
    /\ pc' = [pc EXCEPT ![t] = "cs"]
    /\ UNCHANGED << config, last_replenished_at, clock, tokens, now, last,
                    noted, clean, run, dep, others >>

\* consume, lines 136-147: the critical section; the guard is dropped on return
Decide(t) ==
    /\ pc[t] = "cs"
    /\ mutex = Some(t)
    /\ last_replenished_at' =
          consume_mark(now[t], interval, tokens[t], time_per_token,
                       last_replenished_at)
    /\ Observe(consume_result(now[t], interval, tokens[t], time_per_token,
                              last_replenished_at),
               Some(now[t]), last_replenished_at)
    /\ mutex' = None
    /\ pc' = [pc EXCEPT ![t] = "idle"]
    /\ tokens' = [tokens EXCEPT ![t] = 0]
    /\ now' = [now EXCEPT ![t] = 0]
    /\ UNCHANGED << config, clock, others >>

\* consume, line 138: the value inside the Mutex is read through the guard
Load(t) ==
    /\ pc[t] = "cs"
    /\ seen' = [seen EXCEPT ![t] = last_replenished_at]
    /\ expect' = [expect EXCEPT ![t] =
                     consume_result(now[t], interval, tokens[t],
                                    time_per_token, serial)]
    /\ serial' = consume_mark(now[t], interval, tokens[t], time_per_token,
                              serial)
    /\ pc' = [pc EXCEPT ![t] = "loaded"]
    /\ UNCHANGED << config, last_replenished_at, mutex, clock, tokens, now,
                    last, noted, clean, run, dep, limiter, variants >>

\* consume, lines 140-147: the comparison, the write through the guard on the
\* Ok branch, and the return, which drops the guard
Store(t) ==
    /\ pc[t] = "loaded"
    /\ last_replenished_at' =
          IF consume_result(now[t], interval, tokens[t], time_per_token,
                            seen[t]).kind = "Ok"
          THEN consume_mark(now[t], interval, tokens[t], time_per_token,
                            seen[t])
          ELSE last_replenished_at
    /\ Observe(consume_result(now[t], interval, tokens[t], time_per_token,
                              seen[t]),
               Some(now[t]), seen[t])
    /\ mutex' = None
    /\ pc' = [pc EXCEPT ![t] = "idle"]
    /\ tokens' = [tokens EXCEPT ![t] = 0]
    /\ now' = [now EXCEPT ![t] = 0]
    /\ seen' = [seen EXCEPT ![t] = None]
    /\ expect' = [expect EXCEPT ![t] = NoResult]
    /\ UNCHANGED << config, clock, serial, limiter, variants >>

\* the account of the admitted calls: to every admitted call belongs the
\* clock reading it took plus time_per_token for every token admitted from
\* that call on, itself included; peak is the largest of these sums.  After a
\* call that read the clock at `at` is admitted with tokens_v tokens, the sum
\* of the new call is at + tokens_v * time_per_token and the sum of every
\* earlier call has grown by tokens_v * time_per_token.  A sum that is more
\* than every clock reading plus the interval is kept as Overdrawn.
Overdrawn == MaxTime + MaxInterval + 1

peak_after(res, at, tokens_v) ==
    IF res.kind = "Ok"
    THEN Some(min(max(unwrap_or(peak, at), at) + tokens_v * time_per_token,
                  Overdrawn))
    ELSE peak

\* time passes
Tick ==
    /\ clock < MaxTime
    /\ clock' = clock + 1
    /\ UNCHANGED << config, last_replenished_at, mutex, pc, tokens, now, last,
                    noted, clean, run, dep, others >>

\* ------------------------------------------------ consume with any usize
\* TokenBucket::consume, lines 128-147, called by one thread: Blocked; or a
\* panic at line 134 on a poisoned Mutex; or, when the product of line 137
\* overflows, a panic that poisons the Mutex in a build with overflow checks
\* and the wrapped product in a build without; or the result of lines 140-146
ConsumeUsize(t, w) ==
    /\ pc[t] = "idle"
    /\ IF time_per_token = 0
       THEN /\ last' = Blocked(w)
            /\ UNCHANGED << last_replenished_at, mutex >>
       ELSE IF mutex = Poisoned
       THEN /\ last' = Panicked(w)
            /\ UNCHANGED << last_replenished_at, mutex >>
       ELSE IF overflow_checks /\ overflows(w, time_per_token)
       THEN /\ last' = Panicked(w)
            /\ mutex' = Poisoned
            /\ UNCHANGED last_replenished_at
       ELSE LET required == required_time_usize(clock, interval, w,
                                               time_per_token,
                                               last_replenished_at)
            IN  /\ last' = IF required > clock
                           THEN RetryAfter(w, required - clock)
                           ELSE Ok(w)
                /\ last_replenished_at' =
                      IF required > clock THEN last_replenished_at
                      ELSE Some(required)
                /\ UNCHANGED mutex
    /\ UNCHANGED << config, clock, pc, tokens, now, noted, clean, run, dep,
                    others >>

\* ------------------------------ concurrent calls of consume with any usize
\* consume, line 134, on a poisoned Mutex: lock() returns Err and unwrap
\* panics; the call returns nothing
LockPoisoned(t) ==
    /\ pc[t] = "lock"
    /\ mutex = Poisoned
    /\ pc' = [pc EXCEPT ![t] = "panicked"]
    /\ tokens' = [tokens EXCEPT ![t] = 0]
    /\ now' = [now EXCEPT ![t] = 0]
    /\ UNCHANGED << config, last_replenished_at, mutex, clock, last, noted,
                    clean, run, dep, others >>

\* consume, lines 136-147, with the arithmetic of usize: when the product of
\* line 137 overflows, a build with overflow checks panics with the guard
\* held, which poisons the Mutex, and a build without goes on with the
\* wrapped product; the account of the admitted calls is kept
DecideUsize(t) ==
    /\ pc[t] = "cs"
    /\ mutex = Some(t)
    /\ IF overflow_checks /\ overflows(tokens[t], time_per_token)
       THEN /\ mutex' = Poisoned
            /\ pc' = [pc EXCEPT ![t] = "panicked"]
            /\ UNCHANGED << last_replenished_at, peak >>
       ELSE /\ last_replenished_at' =
                  consume_mark_usize(now[t], interval, tokens[t],
                                     time_per_token, last_replenished_at)
            /\ peak' = peak_after(consume_result_usize(now[t], interval,
                                      tokens[t], time_per_token,
                                      last_replenished_at),
                                  now[t], tokens[t])
            /\ mutex' = None
            /\ pc' = [pc EXCEPT ![t] = "idle"]
    /\ tokens' = [tokens EXCEPT ![t] = 0]
    /\ now' = [now EXCEPT ![t] = 0]
    /\ UNCHANGED << config, clock, last, noted, clean, run, dep, lin, limiter,
                    overflow_checks, counter >>

\* ------------------------------------- the two buckets given the same call
\* TokenBucket::consume of token_bucket.rs and TokenBucket::consume_weight of
\* lib.rs, called by one thread with the same tokens at the same clock
\* reading; a thread that panicked in consume_weight makes no more calls
ConsumeBoth(t, w) ==
    /\ pc[t] = "idle"
    /\ ~counter.panicked
    /\ last' = IF time_per_token = 0 THEN Blocked(w)
               ELSE consume_result(clock, interval, w, time_per_token,
                                   last_replenished_at)
    /\ last_replenished_at' =
          IF time_per_token = 0 THEN last_replenished_at
          ELSE consume_mark(clock, interval, w, time_per_token,
                            last_replenished_at)
    /\ counter' = consume_weight(clock, limit, interval, counter, w)
    /\ UNCHANGED << config, mutex, clock, pc, tokens, now, noted, clean, run,
                    dep, lin, limiter, overflow_checks, peak >>

\* ------------------------------------------- actions of the rate limiter
\* TokenBucket::consume on the bucket outside the rate limiter, called with
\* the tokens and at the clock reading of a call with key k
twin_result(at, tokens_v) ==
    IF time_per_token = 0 THEN Blocked(tokens_v)
    ELSE consume_result(at, interval, tokens_v, time_per_token,
                        last_replenished_at)

twin_mark(at, tokens_v) ==
    IF time_per_token = 0 THEN last_replenished_at
    ELSE consume_mark(at, interval, tokens_v, time_per_token,
                      last_replenished_at)

TwinCall(k, at, tokens_v) ==
    IF Sequential /\ k = Twin
    THEN /\ last' = twin_result(at, tokens_v)
         /\ last_replenished_at' = twin_mark(at, tokens_v)
    ELSE UNCHANGED << last, last_replenished_at >>

\* RateLimiterBuilder::limit, lines 140-143
BuilderLimit(k, limit_arg, interval_arg) ==
    /\ ~built
    /\ Len(limits) < MaxRegs
    /\ limits' = Append(limits, [key |-> k, limit |-> limit_arg,
                                 interval |-> interval_arg])
    /\ superseded' =
          IF /\ Sequential
             /\ \E i \in DOMAIN limits :
                   /\ limits[i].key = k
                   /\ << limits[i].limit, limits[i].interval >>
                         # << limit_arg, interval_arg >>
          THEN superseded \cup {k} ELSE superseded
    /\ UNCHANGED << config, last_replenished_at, mutex, clock, pc, tokens, now,
                    last, noted, clean, run, dep, lin, built, buckets, key,
                    answer, variants >>

\* RateLimiterBuilder::done, lines 150-160; the builder is consumed.  The
\* bucket outside the rate limiter is built with the last policy of Twin.
Done ==
    /\ ~built
    /\ built' = TRUE
    /\ buckets' = collect(limits)
    /\ limits' = << >>
    /\ IF \E i \in DOMAIN limits : limits[i].key = Twin
       THEN /\ limit' = final_policy(limits, Twin).limit
            /\ interval' = final_policy(limits, Twin).interval
            /\ time_per_token' = with_timer(final_policy(limits, Twin).limit,
                                            final_policy(limits, Twin).interval)
       ELSE UNCHANGED << limit, interval, time_per_token >>
    /\ UNCHANGED << last_replenished_at, mutex, clock, pc, tokens, now, last,
                    noted, clean, run, dep, callers, lin, key, answer,
                    superseded, variants >>

\* lines 119-122, were consume to enter a bucket for a key it does not find
KeyUnregistered_inserting(t, k, w) ==
    /\ built
    /\ pc[t] = "idle"
    /\ get(buckets, k) = None
    /\ answer' = Answered(answer, callers, Answer(k, unregistered(w)))
    /\ buckets' = insert(buckets, k, new_bucket(0, 0))
    /\ UNCHANGED << config, last_replenished_at, clock, pc, tokens, now, last,
                    key, apart >>

\* RateLimiter::consume, lines 119-122: no bucket for the key
KeyUnregistered(t, k, w) ==
    /\ built
    /\ pc[t] = "idle"
    /\ get(buckets, k) = None
    /\ answer' = Answered(answer, callers, Answer(k, unregistered(w)))
    /\ UNCHANGED << config, last_replenished_at, clock, pc, tokens, now, last,
                    buckets, key, apart >>

\* RateLimiter::consume, line 121, and TokenBucket::consume, lines 129-131
KeyBlocked(t, k, w) ==
    /\ built
    /\ pc[t] = "idle"
    /\ get(buckets, k) # None
    /\ buckets[k].time_per_token = 0
    /\ answer' = Answered(answer, callers, Answer(k, Blocked(w)))
    /\ TwinCall(k, clock, w)
    /\ UNCHANGED << config, clock, pc, tokens, now, buckets, key, apart >>

\* RateLimiter::consume, line 121, and TokenBucket::consume, line 133
KeyReadClock(t, k, w) ==
    /\ built
    /\ pc[t] = "idle"
    /\ get(buckets, k) # None
    /\ buckets[k].time_per_token # 0
    /\ key' = [key EXCEPT ![t] = k]
    /\ tokens' = [tokens EXCEPT ![t] = w]
    /\ now' = [now EXCEPT ![t] = clock]
    /\ pc' = [pc EXCEPT ![t] = "lock"]
    /\ UNCHANGED << config, last_replenished_at, clock, last, buckets, answer,
                    apart >>

\* TokenBucket::consume, line 134, on the bucket of the key
KeyLock(t) ==
    /\ pc[t] = "lock"
    /\ key[t] \in DOMAIN buckets
    /\ lock_free(buckets, key[t])
    /\ buckets' = [buckets EXCEPT ![key[t]].mutex = Some(t)]
    /\ pc' = [pc EXCEPT ![t] = "cs"]
    /\ UNCHANGED << config, last_replenished_at, clock, tokens, now, last, key,
                    answer, apart >>

\* TokenBucket::consume, lines 136-147, on the bucket of the key; the result
\* is returned by RateLimiter::consume as it is
KeyDecide(t) ==
    /\ pc[t] = "cs"
    /\ key[t] \in DOMAIN buckets
    /\ LET b == buckets[key[t]]
       IN  /\ buckets' =
                 store(buckets, key[t],
                       consume_mark(now[t], b.interval, tokens[t],
                                    b.time_per_token, b.last_replenished_at))
           /\ answer' =
                 Answered(answer, callers,
                          Answer(key[t],
                                 consume_result(now[t], b.interval, tokens[t],
                                                b.time_per_token,
                                                b.last_replenished_at)))
    /\ TwinCall(key[t], now[t], tokens[t])
    /\ pc' = [pc EXCEPT ![t] = "idle"]
    /\ key' = [key EXCEPT ![t] = "-"]
    /\ tokens' = [tokens EXCEPT ![t] = 0]
    /\ now' = [now EXCEPT ![t] = 0]
    /\ UNCHANGED << config, clock, apart >>

\* time passes
KeyTick ==
    /\ clock < MaxKeyTime
    /\ clock' = clock + 1
    /\ UNCHANGED << config, last_replenished_at, pc, tokens, now, last, buckets,
                    key, answer, apart >>

Next ==
    \/ \E t \in callers, w \in 0..MaxTokens : ConsumeBlocked(t, w)
    \/ \E t \in callers, w \in 0..MaxTokens : ReadClock(t, w)
    \/ \E t \in callers : Lock(t)
    \/ \E t \in callers : Decide(t)
    \/ Tick

Spec == Init /\ [][Next]_vars

SpecConc == InitConc /\ [][Next]_vars

SpecWarm == InitWarm /\ [][Next]_vars

\* the threads call consume concurrently, the critical section taken one
\* statement at a time
NextLin ==
    \/ \E t \in callers, w \in 0..MaxTokens : ConsumeBlocked(t, w)
    \/ \E t \in callers, w \in 0..MaxTokens : ReadClock(t, w)
    \/ \E t \in callers : Lock(t)
    \/ \E t \in callers : Load(t)
    \/ \E t \in callers : Store(t)
    \/ Tick

SpecLin == InitLin /\ [][NextLin]_vars

\* one thread calls consume with any usize
NextUsize ==
    \/ \E t \in callers, w \in 0..MaxUsize : ConsumeUsize(t, w)
    \/ Tick

SpecUsize == InitUsize /\ [][NextUsize]_vars

\* the threads call consume concurrently with any usize.  Every thread that
\* can take a step takes one in the end, and a thread that waits for the
\* Mutex gets it in the end if it is free again and again.
NextLive ==
    \/ \E t \in callers, w \in 0..MaxUsize : ConsumeBlocked(t, w)
    \/ \E t \in callers, w \in 0..MaxUsize : ReadClock(t, w)
    \/ \E t \in callers : Lock(t)
    \/ \E t \in callers : LockPoisoned(t)
    \/ \E t \in callers : DecideUsize(t)
    \/ Tick

SpecLive ==
    /\ InitLive
    /\ [][NextLive]_vars
    /\ \A t \in Threads :
          /\ SF_vars(Lock(t))
          /\ WF_vars(LockPoisoned(t))
          /\ WF_vars(DecideUsize(t))

\* one thread calls the bucket of token_bucket.rs and the bucket of lib.rs
NextCounter ==
    \/ \E t \in callers, w \in 0..MaxTokens : ConsumeBoth(t, w)
    \/ Tick

SpecCounter == InitCounter /\ [][NextCounter]_vars

\* the builder, then the calls of RateLimiter::consume
NextKeys ==
    \/ \E k \in PolicyKeys, l \in 0..MaxKeyLimit, i \in 0..MaxKeyInterval :
          BuilderLimit(k, l, i)
    \/ Done
    \/ \E t \in callers, k \in Keys, w \in 0..MaxKeyTokens :
          KeyUnregistered(t, k, w)
    \/ \E t \in callers, k \in Keys, w \in 0..MaxKeyTokens :
          KeyBlocked(t, k, w)
    \/ \E t \in callers, k \in Keys, w \in 0..MaxKeyTokens :
          KeyReadClock(t, k, w)
    \/ \E t \in callers : KeyLock(t)
    \/ \E t \in callers : KeyDecide(t)
    \/ KeyTick

SpecKeys == InitKeys /\ [][NextKeys]_vars

SpecKeysConc == InitKeysConc /\ [][NextKeys]_vars

\* ---------------------------------------------------------------- claims
\* the step in which the call of thread t returns from the critical section
Returns(t) == pc[t] = "cs" /\ pc'[t] = "idle"

\* the instant at which the refusal kept in `noted` said the call is admitted
NotedRequired == noted[1].at + noted[1].delay

\* C1: on a bucket with limit > 0 and interval > 0 that has admitted nothing,
\* unit calls made one after the other at one instant are admitted limit
\* times and the call after them is refused with RetryAfter(d), d > 0.
C1_FreshUnitRun ==
    (limit > 0 /\ interval > 0 /\ run.first) =>
        /\ run.n <= limit
        /\ run.closed => /\ run.n = limit
                         /\ last.kind = "RetryAfter"
                         /\ last.delay > 0

\* C2: a call that returns RetryAfter leaves last_replenished_at (absent or
\* set) and the rest of the bucket exactly as they were, and the lock free:
\* the bucket is in the state it would be in had the call not been made.
C2_RejectLeavesMark ==
    [][\A t \in callers :
          (Returns(t) /\ last'.kind = "RetryAfter") =>
              /\ last_replenished_at' = last_replenished_at
              /\ mutex' = None
              /\ UNCHANGED << limit, interval, time_per_token >>]_vars

C2_Witness ==
    /\ last.kind = "RetryAfter"
    /\ last.tokens > 1
    /\ last_replenished_at # None

\* C3: after consume(w) returned RetryAfter(d) at instant t, and with no call
\* admitted since, consume(w) at t + d - 1 returns RetryAfter(1) and
\* consume(w) at t + d is admitted.
C3_RetryAtRequired ==
    [][\A t \in callers :
          (Returns(t) /\ noted # None /\ clean /\ tokens[t] = noted[1].tokens) =>
              /\ now[t] = NotedRequired - 1 =>
                    (last'.kind = "RetryAfter" /\ last'.delay = 1)
              /\ now[t] = NotedRequired => last'.kind = "Ok"]_vars

\* C4: a call whose weight exceeds the limit is not refused for ever: once the
\* clock is a whole interval plus the call's own token delay past the last
\* commit (past the clock's origin when nothing was admitted), a wait after
\* which no further credit can accumulate, the call is admitted.
C4_LargeWeightAdmitted ==
    [][\A t \in callers :
          (/\ Returns(t) /\ limit > 0 /\ tokens[t] > limit
           /\ now[t] >= unwrap_or(last_replenished_at, 0) + interval
                          + token_delay(tokens[t], time_per_token)) =>
              last'.kind = "Ok"]_vars

\* C5: a bucket built with limit > 0 and interval > 0 never returns Blocked.
C5_BlockedOnlyZero ==
    (limit > 0 /\ interval > 0) => last.kind # "Blocked"

\* C6: a bucket built with limit = 0 or interval = 0 returns Blocked from
\* every call, and no call reads the clock, takes the lock or sets
\* last_replenished_at.
C6_ZeroAlwaysBlocked ==
    (limit = 0 \/ interval = 0) =>
        /\ last.kind \in {"None", "Blocked"}
        /\ now = [t \in Threads |-> 0]
        /\ last_replenished_at = None
        /\ mutex = None
        /\ \A t \in Threads : pc[t] = "idle"

C6_Witness ==
    /\ limit > 0
    /\ interval = 0
    /\ last.kind = "Blocked"
    /\ last.tokens = 1
    /\ clock = MaxTime

\* C7: after consume(w) returned RetryAfter(d) at instant t, consume(w) at an
\* instant t' with t <= t' < t + d returns RetryAfter too, whatever calls were
\* made in between.
C7_NoEarlyAdmit ==
    [][\A t \in callers :
          (/\ Returns(t) /\ noted # None /\ tokens[t] = noted[1].tokens
           /\ noted[1].at <= now[t] /\ now[t] < NotedRequired) =>
              last'.kind = "RetryAfter"]_vars

\* C8: when consume(w) returned RetryAfter(d) at t and returns RetryAfter(d')
\* at t + e with no call admitted in between, d - e <= d' <= d.
C8_DelayShrinksWithTime ==
    [][\A t \in callers :
          (/\ Returns(t) /\ noted # None /\ clean
           /\ tokens[t] = noted[1].tokens /\ noted[1].at <= now[t]
           /\ last'.kind = "RetryAfter") =>
              /\ noted[1].delay - (now[t] - noted[1].at) <= last'.delay
              /\ last'.delay <= noted[1].delay]_vars

\* C9: when limit unit calls were admitted at instant t and the next was
\* refused, the unit calls made at t + interval are admitted limit times and
\* the call after them is refused; and so again after every further interval.
C9_PeriodicRenewal ==
    (limit > 0 /\ interval > 0 /\ run.cyc) =>
        /\ run.n <= limit
        /\ run.closed => run.n = limit

\* C10 as stated: a call of weight 0 is always admitted.
C10_ZeroAlwaysAdmitted ==
    (last.kind # "None" /\ last.tokens = 0) => last.kind = "Ok"

\* C10 amended: on a bucket that is not blocked, a call of weight 0 whose
\* clock reading is not earlier than last_replenished_at is admitted.
C10_ZeroAdmittedUnlessOvertaken ==
    [][\A t \in callers :
          (/\ Returns(t) /\ tokens[t] = 0
           /\ unwrap_or(last_replenished_at, now[t]) <= now[t]) =>
              last'.kind = "Ok"]_vars

C10_Witness ==
    /\ last.kind = "Ok"
    /\ last.tokens = 0
    /\ last_replenished_at # None
    /\ last_replenished_at # Some(clock)
    /\ last_replenished_at # Some(0)

\* C11: last_replenished_at, once set, is never absent again and never
\* decreases: every step, a commit by any call in any interleaving included,
\* leaves a value that is at least the value it replaces.
C11_MarkNeverDecreases ==
    [][last_replenished_at # None =>
          /\ last_replenished_at' # None
          /\ last_replenished_at'[1] >= last_replenished_at[1]]_vars

\* a unit call was admitted on top of a value that was already set and later
\* than the start of the call's own interval, while another call that has read
\* the clock waits for the lock
C11_Witness ==
    /\ last.kind = "Ok"
    /\ last.tokens = 1
    /\ clock >= interval
    /\ last_replenished_at # None
    /\ unwrap_or(last_replenished_at, 0) > clock - interval + time_per_token
    /\ \E t \in callers : pc[t] = "lock" /\ now[t] < clock

\* C12: the calls that run concurrently on one bucket return what they return
\* when run one at a time in the order in which they took the lock, each with
\* the clock reading it took, and leave the same last_replenished_at; one
\* call at most is between its read of last_replenished_at and its write, so
\* no two calls are admitted against the same read of it.
C12_OneAtATime ==
    [][/\ \A t \in callers :
             (pc[t] = "loaded" /\ pc'[t] = "idle") =>
                 /\ last' = expect[t]
                 /\ last_replenished_at' = serial
       /\ \A t, u \in callers :
             (pc'[t] \in {"cs", "loaded"} /\ pc'[u] \in {"cs", "loaded"}) =>
                 t = u]_vars

\* a call was admitted while another call that read the clock earlier waits
\* for the lock, after a call that read the clock later was admitted
C12_Witness ==
    /\ last.kind = "Ok"
    /\ last.tokens > 0
    /\ last_replenished_at = serial
    /\ \E t \in callers :
          /\ pc[t] = "lock"
          /\ tokens[t] > 0
          /\ now[t] < unwrap_or(last_replenished_at, 0)

\* the bucket of Twin inside the rate limiter and the bucket outside it, which
\* is called with the calls made with key Twin and with no other, agree: the
\* call with key Twin that returned last got the result the bucket outside
\* gave, and the two hold the same last_replenished_at
TwinAgrees ==
    /\ buckets[Twin].last_replenished_at = last_replenished_at
    /\ buckets[Twin].time_per_token = time_per_token
    /\ buckets[Twin].interval = interval
    /\ answer.key = Twin => /\ answer.kind = last.kind
                            /\ answer.tokens = last.tokens
                            /\ answer.delay = last.delay

\* C13: a call with a key that has no policy is admitted, whatever its
\* tokens, however often it is made and whatever the buckets of the other
\* keys hold; it reads no clock and leaves every bucket as it was.
C13_UnregisteredAdmitted ==
    [][(built /\ answer'.key \in Keys \ DOMAIN buckets) =>
          /\ answer'.kind = "Ok"
          /\ answer' # answer => UNCHANGED << buckets, now, pc, tokens, key,
                                              last_replenished_at, last >>]_vars

C13_Witness ==
    /\ built
    /\ answer = Answer("C", Ok(MaxKeyTokens))
    /\ "A" \in DOMAIN buckets
    /\ buckets["A"].last_replenished_at # None
    /\ "B" \in DOMAIN buckets
    /\ buckets["B"].time_per_token = 0
    /\ clock > 0

\* C14: a call with key k changes the bucket of no other key, and the results
\* for k are those of the calls with key k alone: with the calls on the other
\* keys in between, the bucket of Twin agrees with a bucket that is called
\* with the calls on Twin only.
C14_KeysIndependent ==
    [][built =>
          /\ \A k \in DOMAIN buckets :
                buckets'[k] # buckets[k] =>
                    \E t \in callers : key[t] = k /\ pc[t] \in {"lock", "cs"}
          /\ (Twin \in DOMAIN buckets /\ Cardinality(DOMAIN buckets) > 1) =>
                TwinAgrees']_vars

\* the call on Twin was refused after a call on the other key was admitted
\* and left its bucket a last_replenished_at of its own
C14_Witness ==
    /\ built
    /\ DOMAIN buckets = {"A", "B"}
    /\ answer.key = Twin
    /\ answer.kind = "RetryAfter"
    /\ buckets["A"].last_replenished_at # None
    /\ buckets["B"].last_replenished_at # None
    /\ buckets["B"].last_replenished_at # buckets["A"].last_replenished_at

\* C15: a rate limiter with the single policy (k, limit, interval) and a
\* TokenBucket built with (limit, interval), given the same calls at the same
\* clock readings, return the same results, Ok, Blocked or RetryAfter with
\* the same delay, and hold the same last_replenished_at.
C15_Delegates ==
    [][(built /\ DOMAIN buckets = {Twin}) => TwinAgrees']_vars

C15_Witness ==
    /\ built
    /\ DOMAIN buckets = {Twin}
    /\ superseded = {}
    /\ answer.key = Twin
    /\ answer.kind = "RetryAfter"
    /\ answer.tokens = 1
    /\ answer.delay = 1
    /\ last_replenished_at # None

\* C16: done builds one bucket for every key that was given a policy, from
\* the limit and the interval of the last policy set for the key; the calls
\* with a key set more than once get the results of a bucket built from the
\* last policy.
C16_LastPolicyWins ==
    [][/\ (~built /\ built') =>
             /\ DOMAIN buckets' = {limits[i].key : i \in DOMAIN limits}
             /\ \A k \in DOMAIN buckets' :
                   buckets'[k] = new_bucket(final_policy(limits, k).limit,
                                            final_policy(limits, k).interval)
       /\ (built /\ Twin \in superseded) => TwinAgrees']_vars

C16_Witness ==
    /\ built
    /\ Twin \in superseded
    /\ DOMAIN buckets = {Twin}
    /\ answer = Answer(Twin, Ok(1))
    /\ last_replenished_at # None

\* C20: a call holds the lock of the bucket of its own key and no other, and
\* a call that waits for the lock of its bucket can take it as soon as no
\* call with the same key holds it, whichever locks the calls with other
\* keys hold.
C20_NoContention ==
    built =>
        /\ \A k \in DOMAIN buckets :
              buckets[k].mutex # None =>
                  /\ pc[buckets[k].mutex[1]] = "cs"
                  /\ key[buckets[k].mutex[1]] = k
        /\ \A t \in callers :
              Cardinality({k \in DOMAIN buckets : buckets[k].mutex = Some(t)})
                 <= 1
        /\ \A t \in callers :
              (/\ pc[t] = "lock"
               /\ \A u \in callers : ~(pc[u] = "cs" /\ key[u] = key[t])) =>
                  ENABLED KeyLock(t)

\* two calls with different keys hold the locks of their buckets at once
C20_Witness ==
    /\ pc["t1"] = "cs"
    /\ pc["t2"] = "cs"
    /\ key["t1"] # key["t2"]
    /\ buckets[key["t1"]].mutex = Some("t1")
    /\ buckets[key["t2"]].mutex = Some("t2")

\* the unit calls the claim C18 says are admitted in a row at the instant at
\* on a bucket whose last_replenished_at is lra
replenished(at, lra) ==
    (at - max(at - interval, unwrap_or(lra, at - interval))) \div time_per_token

\* C18: on a bucket that is not blocked, the unit calls made in a row at the
\* instant now are admitted floor((now - max(now - interval, m)) /
\* time_per_token) times, m being last_replenished_at before the first of them
\* (now - interval when absent), and the call refused after them gets
\* RetryAfter(max(now - interval, m') + time_per_token - now), m' being
\* last_replenished_at after the admitted ones.
C18_ReplenishedPerToken ==
    (time_per_token > 0 /\ run.at # None) =>
        /\ run.n <= replenished(run.at[1], run.mark)
        /\ run.closed =>
              /\ run.n = replenished(run.at[1], run.mark)
              /\ last.kind = "RetryAfter"
              /\ last.delay =
                    max(run.at[1] - interval,
                        unwrap_or(last_replenished_at, run.at[1] - interval))
                      + time_per_token - run.at[1]

\* C17: consume returns Ok, RetryAfter or Blocked and nothing else, whatever
\* the usize it is called with, and the product of line 137 does not wrap
\* around: a call is admitted only if its tokens times time_per_token, as
\* numbers, are no more than the interval.
C17_TotalNoWrap ==
    /\ last.kind \in {"None", "Ok", "RetryAfter", "Blocked"}
    /\ last.kind = "Ok" => last.tokens * time_per_token <= interval

\* C19: on calls at clock readings that do not decrease, with an interval
\* that is a multiple of the limit, consume of token_bucket.rs admits a call
\* exactly when consume_weight of lib.rs, on a bucket of the same capacity
\* and interval given the same calls, admits it.
C19_SameAsCounter ==
    (limit > 0 /\ interval > 0 /\ interval % limit = 0 /\ last.kind # "None")
        => (last.kind = "Ok" <=> counter.admitted)

\* C21: once done has returned, no step adds or removes a key or changes the
\* time_per_token or the interval of a bucket, the builder is gone for good,
\* and the last_replenished_at of a bucket changes only in the step in which
\* a call with the key of that bucket returns from its critical section:
\* calls that are admitted, refused, blocked or made with a key that has no
\* policy leave everything else of the rate limiter as it was.
C21_FrozenAfterDone ==
    [][built =>
          /\ built'
          /\ limits' = limits
          /\ DOMAIN buckets' = DOMAIN buckets
          /\ \A k \in DOMAIN buckets :
                /\ buckets'[k].time_per_token = buckets[k].time_per_token
                /\ buckets'[k].interval = buckets[k].interval
                /\ buckets'[k].last_replenished_at
                      # buckets[k].last_replenished_at =>
                      \E t \in callers :
                         key[t] = k /\ pc[t] = "cs" /\ pc'[t] = "idle"]_vars

\* a call on the blocked key returned Blocked after time has passed and
\* after a call on the other key was admitted and left its bucket a
\* last_replenished_at
C21_Witness ==
    /\ built
    /\ DOMAIN buckets = {"A", "B"}
    /\ buckets["B"].time_per_token = 0
    /\ answer = Answer("B", Blocked(MaxKeyTokens))
    /\ buckets["A"].time_per_token # 0
    /\ buckets["A"].last_replenished_at # None
    /\ clock = MaxKeyTime

\* C23: the first call made on a bucket that is not blocked, with tokens >= 1
\* and tokens * time_per_token <= interval, returns Ok at every clock
\* reading, the readings smaller than the interval included, at which
\* checked_sub of line 136 fails and interval_start is the reading itself.
C23_FreshBucketFull ==
    [][\A t \in callers :
          (/\ Returns(t)
           /\ last = NoResult
           /\ tokens[t] >= 1
           /\ tokens[t] * time_per_token <= interval) =>
              last'.kind = "Ok"]_vars

\* C24: with the clock read before the lock is taken and the calls of the
\* threads interleaved in every way, last_replenished_at changes only in the
\* return of a call, to a value that is no later than the clock reading that
\* call took, which is no later than the clock; so last_replenished_at, when
\* set, is never later than the largest reading taken so far, nor than the
\* clock.
C24_MarkNotInFuture ==
    [][/\ last_replenished_at' # last_replenished_at =>
             \E t \in callers :
                /\ Returns(t)
                /\ last_replenished_at' # None
                /\ last_replenished_at'[1] <= now[t]
                /\ now[t] <= clock
       /\ last_replenished_at' # None =>
             last_replenished_at'[1] <= clock']_vars

\* a call with tokens was admitted and left a last_replenished_at that is the
\* present reading of the clock, while another call with tokens, which read
\* the clock earlier, waits for the lock
C24_Witness ==
    /\ last.kind = "Ok"
    /\ last.tokens > 0
    /\ clock > 0
    /\ last_replenished_at = Some(clock)
    /\ \E t \in callers :
          /\ pc[t] = "lock"
          /\ tokens[t] > 0
          /\ now[t] < clock

\* the result the call of thread t gets when it is in its critical section
ResultUsize(t) ==
    consume_result_usize(now[t], interval, tokens[t], time_per_token,
                         last_replenished_at)

\* C22: on a bucket that is not blocked, under every interleaving of the
\* calls, whenever a call that read the clock at b is admitted, every stretch
\* of admitted calls that ends with it, its first call having read the clock
\* at a and W being the tokens admitted in the stretch, has
\* W * time_per_token <= (b - a) + interval, that is
\* a + W * time_per_token <= b + interval for the largest such sum, peak;
\* a stretch of calls made at one instant admits floor(interval /
\* time_per_token) tokens at most.
C22_RateBound ==
    [][\A t \in callers :
          (Returns(t) /\ ResultUsize(t).kind = "Ok") =>
              /\ peak' # None
              /\ peak'[1] <= now[t] + interval]_vars

\* C25: with the threads scheduled fairly, every call of consume that has
\* read the clock returns: the thread gets the Mutex, leaves the critical
\* section on the Ok branch or on the RetryAfter branch with the Mutex
\* released, and is back where it can call again.
C25_EveryCallReturns ==
    \A t \in Threads : (pc[t] = "lock") ~> (pc[t] = "idle")

====
